---- MODULE Spec2Model ----
(***************************************************************************)
(* A model of the ADB MCP server (src/src/index.ts): the argument          *)
(* tokenizer, the device selector, the stderr classifier of                *)
(* executeAdbCommand, the temp-file manager, the tool handlers, the files  *)
(* on the device, and runServer.                                           *)
(*                                                                         *)
(* Text is modelled by TLA+ strings; a character is a string of length 1.  *)
(* Five specifications share the variables:                                *)
(*   SpecTok      the loop of splitCommandArguments, one character a step  *)
(*   SpecClassify executeAdbCommand applied to one subprocess outcome      *)
(*   Spec         runServer, then one tool invocation at a time, through   *)
(*                its await points                                         *)
(*   SpecConc     several temp-file invocations of a connected server,     *)
(*                running interleaved                                      *)
(*   SpecTemp     one call of createTempFilePath, on any prefix and name   *)
(***************************************************************************)
EXTENDS Integers, Sequences, FiniteSets, TLC

VARIABLES
    tok,        \* splitCommandArguments: input, position and loop locals
    cls,        \* executeAdbCommand: the subprocess outcome and the response
    inv,        \* tool invocations: inv[p] is the record of invocation slot p
    now,        \* the value Date.now() returns
    tmpFiles,   \* the files under the temporary directory: path -> bytes
    devFiles,   \* the files on the device: path -> bytes
    srv,        \* runServer: its position, what it logged, the exit status
    tfp         \* createTempFilePath: the arguments of a call and its result

vars == <<tok, cls, inv, now, tmpFiles, devFiles, srv, tfp>>

\* createTempFilePath is not being called
TfpIdle == [pc |-> "idle"]

\* runServer has not been called
ServerNotStarted == [pc |-> "start", log |-> <<>>, exitCode |-> <<>>]

----------------------------------------------------------------------------
(* Bounds of the model *)

\* longest enumerated tokenizer input, in characters
MaxLen == 4

\* most pieces concatenated into one stderr text, and into one stdout text
MaxErrPieces == 2

MaxOutPieces == 1

\* invocations the transport has dispatched and that run interleaved (SpecConc)
NumInv == 2

\* the largest value the clock reaches
MaxTime == 1

----------------------------------------------------------------------------
(* Text helpers *)

CharAt(s, i) == SubSeq(s, i, i)

\* JavaScript's /\s/ on the characters the model draws
IsWhitespace(char) == char \in {" ", "\t", "\n", "\r"}

Min(S) == CHOOSE x \in S : \A y \in S : x <= y

Max(S) == CHOOSE x \in S : \A y \in S : x >= y

\* String.prototype.includes
Includes(s, sub) ==
    \E i \in 1..(Len(s) - Len(sub) + 1) : SubSeq(s, i, i + Len(sub) - 1) = sub

RECURSIVE TrimStart(_)
TrimStart(s) ==
    IF Len(s) > 0 /\ IsWhitespace(CharAt(s, 1))
    THEN TrimStart(SubSeq(s, 2, Len(s)))
    ELSE s

RECURSIVE TrimEnd(_)
TrimEnd(s) ==
    IF Len(s) > 0 /\ IsWhitespace(CharAt(s, Len(s)))
    THEN TrimEnd(SubSeq(s, 1, Len(s) - 1))
    ELSE s

\* String.prototype.trim
Trim(s) == TrimEnd(TrimStart(s))

StartsWith(s, prefix) == Len(s) >= Len(prefix) /\ SubSeq(s, 1, Len(prefix)) = prefix

----------------------------------------------------------------------------
(* splitCommandArguments (src/src/index.ts:289-338) *)

\* the locals as declared before the loop
TokLocals ==
    [args |-> <<>>, current |-> "", inSingleQuote |-> FALSE,
     inDoubleQuote |-> FALSE, escapeNext |-> FALSE]

\* if (escapeNext) { current += char; escapeNext = false; continue; }
AppendEscaped(st, char) ==
    [st EXCEPT !.current = @ \o char, !.escapeNext = FALSE]

\* if (char === "\\") { escapeNext = true; continue; }
StartEscape(st) == [st EXCEPT !.escapeNext = TRUE]

IsSingleQuoteToggle(st, char) == char = "'" /\ ~st.inDoubleQuote

ToggleSingleQuote(st) == [st EXCEPT !.inSingleQuote = ~@]

IsDoubleQuoteToggle(st, char) == char = "\"" /\ ~st.inSingleQuote

ToggleDoubleQuote(st) == [st EXCEPT !.inDoubleQuote = ~@]

\* faulty variant: whitespace splits inside double quotes too
IsSeparatorInDoubleQuote(st, char) == IsWhitespace(char) /\ ~st.inSingleQuote

IsSeparator(st, char) ==
    IsWhitespace(char) /\ ~st.inSingleQuote /\ ~st.inDoubleQuote

\* faulty variant: the length test is missing, runs of whitespace give empty tokens
PushCurrentAlways(st) ==
    [st EXCEPT !.args = Append(@, st.current), !.current = ""]

\* if (current.length > 0) { args.push(current); current = ""; }
PushCurrent(st) ==
    IF Len(st.current) > 0
    THEN [st EXCEPT !.args = Append(@, st.current), !.current = ""]
    ELSE st

AppendChar(st, char) == [st EXCEPT !.current = @ \o char]

\* one iteration of the for-of loop
TokStep(st, char) ==
    IF st.escapeNext THEN AppendEscaped(st, char)
    ELSE IF char = "\\" THEN StartEscape(st)
    ELSE IF IsSingleQuoteToggle(st, char) THEN ToggleSingleQuote(st)
    ELSE IF IsDoubleQuoteToggle(st, char) THEN ToggleDoubleQuote(st)
    ELSE IF IsSeparator(st, char) THEN PushCurrent(st)
    ELSE AppendChar(st, char)

\* faulty variant: the dangling backslash is dropped
TokFinishDropEscape(st) ==
    IF Len(st.current) > 0 THEN Append(st.args, st.current) ELSE st.args

\* the code after the loop: the dangling backslash, the last token, return args
TokFinish(st) ==
    LET cur == IF st.escapeNext THEN st.current \o "\\" ELSE st.current
    IN  IF Len(cur) > 0 THEN Append(st.args, cur) ELSE st.args

RECURSIVE TokLoop(_, _, _)
TokLoop(st, value, i) ==
    IF i > Len(value) THEN st
    ELSE TokLoop(TokStep(st, CharAt(value, i)), value, i + 1)

splitCommandArguments(value) == TokFinish(TokLoop(TokLocals, value, 1))

----------------------------------------------------------------------------
(* The tokenizer's inputs *)

TokAlphabet == {"a", "b", " ", "\t", "'", "\"", "\\"}

RECURSIVE StringsOfLen(_, _)
StringsOfLen(alphabet, n) ==
    IF n = 0 THEN {""}
    ELSE {s \o c : s \in StringsOfLen(alphabet, n - 1), c \in alphabet}

StringsUpTo(alphabet, n) == UNION {StringsOfLen(alphabet, k) : k \in 0..n}

\* the inputs the documentation and the tests of the tokenizer name
TokExamples == {"a 'b c' d", "a \"b\\\"c\" d", "-a android.intent.action.VIEW"}

TokInputs == StringsUpTo(TokAlphabet, MaxLen) \cup TokExamples

----------------------------------------------------------------------------
(* State of the tokenizer run *)

TokIdle == [value |-> "", pos |-> 1, st |-> TokLocals, result |-> <<>>, pc |-> "idle"]

TokStart(value) == [TokIdle EXCEPT !.value = value, !.pc = "loop"]

ClsIdle == [pc |-> "idle"]

\* the next character of the input, while the loop runs
TokChar == CharAt(tok.value, tok.pos)

\* for (const char of value) { ... }
TokIterate ==
    /\ tok.pc = "loop"
    /\ tok.pos <= Len(tok.value)
    /\ tok' = [tok EXCEPT !.st = TokStep(tok.st, TokChar), !.pos = @ + 1]
    /\ UNCHANGED <<cls, inv, now, tmpFiles, devFiles, srv, tfp>>

\* the loop is over: lines 329-337
TokReturn ==
    /\ tok.pc = "loop"
    /\ tok.pos > Len(tok.value)
    /\ tok' = [tok EXCEPT !.result = TokFinish(tok.st), !.pc = "done"]
    /\ UNCHANGED <<cls, inv, now, tmpFiles, devFiles, srv, tfp>>

InitTok ==
    /\ tok \in {TokStart(v) : v \in TokInputs}
    /\ cls = ClsIdle
    /\ inv = <<>>
    /\ now = 0
    /\ tmpFiles = <<>>
    /\ devFiles = <<>>
    /\ srv = ServerNotStarted
    /\ tfp = TfpIdle

NextTok == TokIterate \/ TokReturn

SpecTok == InitTok /\ [][NextTok]_vars

----------------------------------------------------------------------------
(* Claims about splitCommandArguments, checked under SpecTok *)

TokLooping == tok.pc = "loop" /\ tok.pos <= Len(tok.value)

\* C1 (as stated): inside a single-quoted region every character other than
\* the closing quote, a backslash included, is appended unchanged to the
\* current token, and the region stays open.
C1_SingleQuoteLiteral ==
    [][(TokLooping /\ tok.st.inSingleQuote /\ ~tok.st.escapeNext /\ TokChar # "'")
        => tok'.st = [tok.st EXCEPT !.current = @ \o TokChar]]_vars

HasChar(s, chars) == \E i \in 1..Len(s) : CharAt(s, i) \in chars

\* the positions where a maximal run of non-whitespace characters begins
RunStarts(v) ==
    {i \in 1..Len(v) :
        /\ ~IsWhitespace(CharAt(v, i))
        /\ (i = 1 \/ IsWhitespace(CharAt(v, i - 1)))}

RunEnd(v, i) ==
    CHOOSE j \in i..Len(v) :
        /\ \A k \in i..j : ~IsWhitespace(CharAt(v, k))
        /\ (j = Len(v) \/ IsWhitespace(CharAt(v, j + 1)))

RECURSIVE RunsFrom(_, _)
RunsFrom(v, starts) ==
    IF starts = {} THEN <<>>
    ELSE LET i == Min(starts)
         IN  <<SubSeq(v, i, RunEnd(v, i))>> \o RunsFrom(v, starts \ {i})

NonWhitespaceRuns(v) == RunsFrom(v, RunStarts(v))

TokPlainInput == ~HasChar(tok.value, {"'", "\"", "\\"})

\* C2: for an input without quotes and backslashes the result is the sequence
\* of maximal runs of non-whitespace characters, in input order; the empty
\* and the whitespace-only inputs give the empty sequence.
C2_WhitespaceSplits ==
    (tok.pc = "done" /\ TokPlainInput) =>
        /\ tok.result = NonWhitespaceRuns(tok.value)
        /\ (\A i \in 1..Len(tok.value) : IsWhitespace(CharAt(tok.value, i)))
             => tok.result = <<>>

C2_Witness ==
    /\ tok.pc = "done"
    /\ tok.value = "a \tb"
    /\ tok.result = <<"a", "b">>

\* C3: inside a double-quoted region whitespace and the single quote are
\* appended to the current token, a backslash escapes the next character
\* (which is appended, the region staying open), and the two documented
\* inputs give [a, b c, d] and [a, b"c, d].
C3_DoubleQuoteRegion ==
    [][/\ (TokLooping /\ tok.st.inDoubleQuote /\ ~tok.st.escapeNext
            /\ (IsWhitespace(TokChar) \/ TokChar = "'"))
          => tok'.st = [tok.st EXCEPT !.current = @ \o TokChar]
       /\ (TokLooping /\ tok.st.inDoubleQuote /\ ~tok.st.escapeNext
            /\ TokChar = "\\")
          => tok'.st = [tok.st EXCEPT !.escapeNext = TRUE]
       /\ (TokLooping /\ tok.st.inDoubleQuote /\ tok.st.escapeNext)
          => tok'.st = [tok.st EXCEPT !.current = @ \o TokChar,
                                      !.escapeNext = FALSE]
       /\ (tok'.pc = "done" /\ tok.value = "a 'b c' d")
          => tok'.result = <<"a", "b c", "d">>
       /\ (tok'.pc = "done" /\ tok.value = "a \"b\\\"c\" d")
          => tok'.result = <<"a", "b\"c", "d">>]_vars

C3_Witness ==
    /\ tok.pc = "done"
    /\ tok.value = "a \"b\\\"c\" d"
    /\ tok.result = <<"a", "b\"c", "d">>

\* the number of backslashes the input ends with
RECURSIVE TrailingBackslashes(_)
TrailingBackslashes(v) ==
    IF Len(v) > 0 /\ CharAt(v, Len(v)) = "\\"
    THEN 1 + TrailingBackslashes(SubSeq(v, 1, Len(v) - 1))
    ELSE 0

TokOutsideQuotes == ~tok.st.inSingleQuote /\ ~tok.st.inDoubleQuote

\* C4: outside quotes a backslash is dropped and the character after it is
\* appended to the current token whatever it is (no split, no quote opened);
\* an input ending with an unpaired backslash has that backslash appended to
\* the last token.
C4_BackslashOutsideQuotes ==
    [][/\ (TokLooping /\ TokOutsideQuotes /\ ~tok.st.escapeNext /\ TokChar = "\\")
          => tok'.st = [tok.st EXCEPT !.escapeNext = TRUE]
       /\ (TokLooping /\ TokOutsideQuotes /\ tok.st.escapeNext)
          => tok'.st = [tok.st EXCEPT !.current = @ \o TokChar,
                                      !.escapeNext = FALSE]
       /\ (tok'.pc = "done" /\ tok.pc = "loop"
            /\ TrailingBackslashes(tok.value) % 2 = 1)
          => tok'.result = Append(tok.st.args, tok.st.current \o "\\")]_vars

C4_Witness ==
    /\ tok.pc = "done"
    /\ tok.value = "a\\ \\"
    /\ tok.result = <<"a \\">>

----------------------------------------------------------------------------
(* executeAdbCommand (src/src/index.ts:197-251) *)

\* what awaiting runAdb gives: the promise of execFile resolves with the two
\* captured streams, or rejects with an error carrying a message
Resolved(stdout, stderr) == [kind |-> "resolved", stdout |-> stdout, stderr |-> stderr]

Rejected(message) == [kind |-> "rejected", message |-> message]

\* a response without the isError key, and one with it
TextResponse(text) == [content |-> <<[type |-> "text", text |-> text]>>]

ErrorResponse(text) ==
    [content |-> <<[type |-> "text", text |-> text]>>, isError |-> TRUE]

HasIsError(response) == "isError" \in DOMAIN response

ResponseText(response) == response.content[1].text

nonErrorWarnings ==
    {"Warning: Activity not started, its current task has been brought to the front",
     "Warning: Activity not started, intent has been delivered to currently running top-most instance."}

\* faulty variant: the second warning of the list is not looked for
IsFirstNonErrorWarning(stderrText) ==
    Includes(stderrText,
        "Warning: Activity not started, its current task has been brought to the front")

\* nonErrorWarnings.some((warning) => stderrText.includes(warning))
IsNonErrorWarning(stderrText) ==
    \E warning \in nonErrorWarnings : Includes(stderrText, warning)

\* faulty variant: stdout is not searched for the positive markers
StderrIsExaminedAnyStdout(stdout, stderrText) == stderrText # ""

\* the condition of line 205
StderrIsExamined(stdout, stderrText) ==
    /\ stderrText # ""
    /\ ~Includes(stdout, "List of devices attached")
    /\ ~Includes(stdout, "Success")

\* stderrText.replace(/^Error: /, "")
WarningText(stderrText) ==
    IF StartsWith(stderrText, "Error: ")
    THEN SubSeq(stderrText, Len("Error: ") + 1, Len(stderrText))
    ELSE stderrText

\* faulty variant: the marker is not put before the text
FailureTextBare(stderrText) == stderrText

FailureText(stderrText) == "Error: " \o stderrText

\* stdout || "Command executed successfully"
SuccessText(stdout) == IF stdout # "" THEN stdout ELSE "Command executed successfully"

executeAdbCommand(outcome, errorMessage) ==
    IF outcome.kind = "rejected"
    THEN ErrorResponse(errorMessage \o ": " \o outcome.message)
    ELSE LET stderrText == Trim(outcome.stderr)
         IN  IF StderrIsExamined(outcome.stdout, stderrText)
             THEN IF IsNonErrorWarning(stderrText)
                  THEN TextResponse(WarningText(stderrText))
                  ELSE ErrorResponse(FailureText(stderrText))
             ELSE TextResponse(SuccessText(outcome.stdout))

----------------------------------------------------------------------------
(* The outcomes executeAdbCommand is applied to *)

RECURSIVE Concatenations(_, _)
Concatenations(pieces, n) ==
    IF n = 0 THEN {""}
    ELSE LET shorter == Concatenations(pieces, n - 1)
         IN  shorter \cup {s \o piece : s \in shorter, piece \in pieces}

StderrPieces == nonErrorWarnings \cup {" ", "\n", "Error: ", "failed"}

StdoutPieces ==
    {"hello\n", "List of devices attached\n", "Success\n", "Starting: Intent\n"}

RejectionMessages == {"spawn adb ENOENT", "Command failed: adb devices"}

ClsOutcomes ==
    {Resolved(out, err) : out \in Concatenations(StdoutPieces, MaxOutPieces),
                          err \in Concatenations(StderrPieces, MaxErrPieces)}
    \cup {Rejected(m) : m \in RejectionMessages}

ClsErrorMessages == {"Error executing adb devices", "Error executing shell command"}

ClsCall(outcome, errorMessage) ==
    [pc |-> "call", outcome |-> outcome, errorMessage |-> errorMessage]

\* the call returns its response
ClsExecute ==
    /\ cls.pc = "call"
    /\ cls' = [pc |-> "returned", outcome |-> cls.outcome,
               errorMessage |-> cls.errorMessage,
               response |-> executeAdbCommand(cls.outcome, cls.errorMessage)]
    /\ UNCHANGED <<tok, inv, now, tmpFiles, devFiles, srv, tfp>>

InitClassify ==
    /\ cls \in {ClsCall(o, m) : o \in ClsOutcomes, m \in ClsErrorMessages}
    /\ tok = TokIdle
    /\ inv = <<>>
    /\ now = 0
    /\ tmpFiles = <<>>
    /\ devFiles = <<>>
    /\ srv = ServerNotStarted
    /\ tfp = TfpIdle

NextClassify == ClsExecute

SpecClassify == InitClassify /\ [][NextClassify]_vars

----------------------------------------------------------------------------
(* Claims about executeAdbCommand, checked under SpecClassify *)

ClsCompleted == cls.pc = "returned" /\ cls.outcome.kind = "resolved"

HasPositiveMarker(stdout) ==
    Includes(stdout, "List of devices attached") \/ Includes(stdout, "Success")

HasBenignWarning(stderr) == \E w \in nonErrorWarnings : Includes(stderr, w)

\* s from its first to its last character that is not whitespace
Trimmed(s) ==
    LET inked == {k \in 1..Len(s) : ~IsWhitespace(CharAt(s, k))}
    IN  IF inked = {} THEN "" ELSE SubSeq(s, Min(inked), Max(inked))

\* t is s with one leading "Error: " removed, if s has one
IsWithoutErrorPrefix(t, s) ==
    IF StartsWith(s, "Error: ") THEN s = "Error: " \o t ELSE t = s

\* C6 (as stated): adb completed and stderr is empty or stdout holds a
\* positive marker: the response has no isError and its text is stdout.
C6_SuccessTextIsStdout ==
    (ClsCompleted /\ (cls.outcome.stderr = "" \/ HasPositiveMarker(cls.outcome.stdout)))
        => /\ ~HasIsError(cls.response)
           /\ ResponseText(cls.response) = cls.outcome.stdout

\* C6 (amended): in that case the response has no isError and its text is
\* stdout when stdout is not empty, and "Command executed successfully" when
\* stdout is empty.
C6_SuccessText ==
    (ClsCompleted /\ (cls.outcome.stderr = "" \/ HasPositiveMarker(cls.outcome.stdout)))
        => /\ ~HasIsError(cls.response)
           /\ cls.outcome.stdout # ""
                => ResponseText(cls.response) = cls.outcome.stdout
           /\ cls.outcome.stdout = ""
                => ResponseText(cls.response) = "Command executed successfully"

C6_Witness ==
    /\ ClsCompleted
    /\ cls.outcome.stdout = "Success\n"
    /\ cls.outcome.stderr = "failed"
    /\ cls.response = TextResponse("Success\n")

\* C7 (as stated): for every stdout, stderr containing an allow-listed warning
\* gives a response without isError whose text is the stderr text with a
\* leading "Error: " removed.
C7_BenignForEveryStdout ==
    (ClsCompleted /\ HasBenignWarning(cls.outcome.stderr))
        => /\ ~HasIsError(cls.response)
           /\ IsWithoutErrorPrefix(ResponseText(cls.response),
                                   Trimmed(cls.outcome.stderr))

\* C7 (amended): stderr containing an allow-listed warning gives, for every
\* stdout, a response without isError; when stdout holds no positive marker
\* its text is stderr, without its surrounding whitespace, with a leading
\* "Error: " removed.
C7_BenignWarning ==
    (ClsCompleted /\ HasBenignWarning(cls.outcome.stderr))
        => /\ ~HasIsError(cls.response)
           /\ ~HasPositiveMarker(cls.outcome.stdout)
                => IsWithoutErrorPrefix(ResponseText(cls.response),
                                        Trimmed(cls.outcome.stderr))

C7_Witness ==
    /\ ClsCompleted
    /\ cls.outcome.stdout = "Starting: Intent\n"
    /\ \E w \in nonErrorWarnings :
         /\ cls.outcome.stderr = "Error: " \o w
         /\ cls.response = TextResponse(w)

\* C8 (as stated): a non-empty stderr without an allow-listed warning gives
\* isError = true and the text "Error: " followed by stderr verbatim.
C8_FailureVerbatim ==
    (ClsCompleted /\ cls.outcome.stderr # "" /\ ~HasBenignWarning(cls.outcome.stderr))
        => /\ HasIsError(cls.response) /\ cls.response.isError = TRUE
           /\ ResponseText(cls.response) = "Error: " \o cls.outcome.stderr

\* C8 (amended): when stdout holds no positive marker, a stderr that is not
\* empty once its surrounding whitespace is removed and that contains no
\* allow-listed warning gives isError = true and the text "Error: " followed
\* by stderr without its surrounding whitespace.
C8_Failure ==
    (ClsCompleted /\ ~HasPositiveMarker(cls.outcome.stdout)
       /\ ~HasBenignWarning(cls.outcome.stderr)
       /\ Trimmed(cls.outcome.stderr) # "")
        => /\ HasIsError(cls.response) /\ cls.response.isError = TRUE
           /\ ResponseText(cls.response) = "Error: " \o Trimmed(cls.outcome.stderr)

C8_Witness ==
    /\ ClsCompleted
    /\ cls.outcome.stdout = "hello\n"
    /\ cls.outcome.stderr = "failed\n"
    /\ cls.response = ErrorResponse("Error: failed")

----------------------------------------------------------------------------
(* Optional parameters, byte strings and their encodings *)

\* an optional value is a sequence of at most one element
Undefined == <<>>

Some(x) == <<x>>

\* JavaScript truthiness of an optional string
IsTruthy(opt) == opt # Undefined /\ opt[1] # ""

\* zod's .optional().default(d)
WithDefault(opt, d) == IF opt = Undefined THEN d ELSE opt[1]

Base64Alphabet == "ABCDEFGHIJKLMNOPQRSTUVWXYZabcdefghijklmnopqrstuvwxyz0123456789+/"

Base64Char(n) == CharAt(Base64Alphabet, n + 1)

\* faulty variant: the last group is not padded with "="
RECURSIVE Base64EncodeUnpadded(_)
Base64EncodeUnpadded(bytes) ==
    IF Len(bytes) = 0 THEN ""
    ELSE IF Len(bytes) = 1
    THEN Base64Char(bytes[1] \div 4) \o Base64Char((bytes[1] % 4) * 16)
    ELSE IF Len(bytes) = 2
    THEN Base64Char(bytes[1] \div 4)
         \o Base64Char((bytes[1] % 4) * 16 + bytes[2] \div 16)
         \o Base64Char((bytes[2] % 16) * 4)
    ELSE Base64Char(bytes[1] \div 4)
         \o Base64Char((bytes[1] % 4) * 16 + bytes[2] \div 16)
         \o Base64Char((bytes[2] % 16) * 4 + bytes[3] \div 64)
         \o Base64Char(bytes[3] % 64)
         \o Base64EncodeUnpadded(SubSeq(bytes, 4, Len(bytes)))

\* Buffer.prototype.toString('base64'); bytes is a sequence of 0..255
RECURSIVE Base64Encode(_)
Base64Encode(bytes) ==
    IF Len(bytes) = 0 THEN ""
    ELSE IF Len(bytes) = 1
    THEN Base64Char(bytes[1] \div 4) \o Base64Char((bytes[1] % 4) * 16) \o "=="
    ELSE IF Len(bytes) = 2
    THEN Base64Char(bytes[1] \div 4)
         \o Base64Char((bytes[1] % 4) * 16 + bytes[2] \div 16)
         \o Base64Char((bytes[2] % 16) * 4) \o "="
    ELSE Base64Char(bytes[1] \div 4)
         \o Base64Char((bytes[1] % 4) * 16 + bytes[2] \div 16)
         \o Base64Char((bytes[2] % 16) * 4 + bytes[3] \div 64)
         \o Base64Char(bytes[3] % 64)
         \o Base64Encode(SubSeq(bytes, 4, Len(bytes)))

\* the value of a base64 digit; the URL-safe digits - and _ are accepted too
Base64Value(char) ==
    IF char = "-" THEN 62
    ELSE IF char = "_" THEN 63
    ELSE CHOOSE n \in 0..63 : Base64Char(n) = char

IsBase64Digit(char) ==
    char \in {"-", "_"} \/ \E n \in 0..63 : Base64Char(n) = char

\* the digits of the text up to the first "=", other characters skipped
RECURSIVE Base64Digits(_)
Base64Digits(text) ==
    IF Len(text) = 0 \/ CharAt(text, 1) = "=" THEN <<>>
    ELSE IF IsBase64Digit(CharAt(text, 1))
    THEN <<Base64Value(CharAt(text, 1))>> \o Base64Digits(SubSeq(text, 2, Len(text)))
    ELSE Base64Digits(SubSeq(text, 2, Len(text)))

RECURSIVE Base64Bytes(_)
Base64Bytes(d) ==
    IF Len(d) < 2 THEN <<>>
    ELSE IF Len(d) = 2 THEN <<d[1] * 4 + d[2] \div 16>>
    ELSE IF Len(d) = 3
    THEN <<d[1] * 4 + d[2] \div 16, (d[2] % 16) * 16 + d[3] \div 4>>
    ELSE <<d[1] * 4 + d[2] \div 16, (d[2] % 16) * 16 + d[3] \div 4,
           (d[3] % 4) * 64 + d[4]>> \o Base64Bytes(SubSeq(d, 5, Len(d)))

\* Buffer.from(text, 'base64'): never throws
Base64Decode(text) == Base64Bytes(Base64Digits(text))

\* the characters of the bytes 32..126; the grave accent (96), which a TLA+
\* string cannot hold, is shown by "?"
PrintableAscii ==
    " !\"#$%&'()*+,-./0123456789:;<=>?@ABCDEFGHIJKLMNOPQRSTUVWXYZ[\\]^_?abcdefghijklmnopqrstuvwxyz{|}~"

\* the character of one byte read as 'utf8'; a byte that is no ASCII text is
\* shown by "?", standing for the replacement character
CharOfByte(b) ==
    IF b >= 32 /\ b <= 126 THEN CharAt(PrintableAscii, b - 31)
    ELSE IF b = 10 THEN "\n"
    ELSE "?"

\* readFile(path, 'utf8')
RECURSIVE Utf8Decode(_)
Utf8Decode(bytes) ==
    IF Len(bytes) = 0 THEN ""
    ELSE CharOfByte(bytes[1]) \o Utf8Decode(Tail(bytes))

----------------------------------------------------------------------------
(* buildDeviceArgs, createTempFilePath (src/src/index.ts:260-287) *)

\* faulty variant: an empty device id is passed on
buildDeviceArgsDefined(device) ==
    IF device # Undefined THEN <<"-s", device[1]>> ELSE <<>>

\* return device ? ["-s", device] : [];
buildDeviceArgs(device) ==
    IF IsTruthy(device) THEN <<"-s", device[1]>> ELSE <<>>

\* path.basename (posix): the part after the last "/", trailing "/" dropped
basename(path) ==
    LET named == {k \in 1..Len(path) : CharAt(path, k) # "/"}
    IN  IF named = {} THEN ""
        ELSE LET end == Max(named)
                 slashes == {k \in 1..end : CharAt(path, k) = "/"}
                 start == IF slashes = {} THEN 1 ELSE Max(slashes) + 1
             IN  SubSeq(path, start, end)

\* os.tmpdir()
tmpdir == "/tmp"

\* String.prototype.split on a separator of one character
RECURSIVE SplitOn(_, _)
SplitOn(s, sep) ==
    LET at == {k \in 1..Len(s) : CharAt(s, k) = sep}
    IN  IF at = {} THEN <<s>>
        ELSE <<SubSeq(s, 1, Min(at) - 1)>> \o SplitOn(SubSeq(s, Min(at) + 1, Len(s)), sep)

\* Array.prototype.join
RECURSIVE JoinWith(_, _)
JoinWith(parts, sep) ==
    IF Len(parts) = 0 THEN ""
    ELSE IF Len(parts) = 1 THEN parts[1]
    ELSE parts[1] \o sep \o JoinWith(Tail(parts), sep)

\* the segments of a normalized path: empty and "." segments are dropped,
\* ".." removes the segment kept before it, and is kept itself only in a
\* relative path that has nothing left to remove
RECURSIVE NormalizeSegments(_, _, _)
NormalizeSegments(segments, kept, allowAboveRoot) ==
    IF Len(segments) = 0 THEN kept
    ELSE LET seg == Head(segments)
             rest == Tail(segments)
         IN  IF seg = "" \/ seg = "." THEN NormalizeSegments(rest, kept, allowAboveRoot)
             ELSE IF seg # ".."
             THEN NormalizeSegments(rest, Append(kept, seg), allowAboveRoot)
             ELSE IF Len(kept) > 0 /\ kept[Len(kept)] # ".."
             THEN NormalizeSegments(rest, SubSeq(kept, 1, Len(kept) - 1), allowAboveRoot)
             ELSE IF allowAboveRoot
             THEN NormalizeSegments(rest, Append(kept, ".."), allowAboveRoot)
             ELSE NormalizeSegments(rest, kept, allowAboveRoot)

\* path.normalize (posix)
normalize(path) ==
    IF path = "" THEN "."
    ELSE LET isAbsolute == CharAt(path, 1) = "/"
             trailingSeparator == CharAt(path, Len(path)) = "/"
             body == JoinWith(NormalizeSegments(SplitOn(path, "/"), <<>>, ~isAbsolute), "/")
         IN  IF body = ""
             THEN (IF isAbsolute THEN "/" ELSE IF trailingSeparator THEN "./" ELSE ".")
             ELSE (IF isAbsolute THEN "/" ELSE "") \o body
                  \o (IF trailingSeparator THEN "/" ELSE "")

IsNonEmptyText(text) == text # ""

\* path.join (posix) of two arguments: the non-empty ones are joined by "/"
\* and the result is normalized
join(dir, name) ==
    normalize(JoinWith(SelectSeq(<<dir, name>>, IsNonEmptyText), "/"))

\* faulty variant: the suggested name is used as it is
createTempFilePathUnstripped(prefix, filename) ==
    join(tmpdir, prefix \o "-" \o ToString(now) \o "-" \o filename)

\* join(tmpdir(), `${prefix}-${Date.now()}-${basename(filename)}`)
createTempFilePath(prefix, filename) ==
    join(tmpdir, prefix \o "-" \o ToString(now) \o "-" \o basename(filename))

\* longest enumerated suggested name, in characters
MaxNameLen == 3

TfpPrefixes == {"adb-mcp", "", "a/b", "../x"}

TfpNames ==
    StringsUpTo({"a", ".", "/"}, MaxNameLen)
    \cup {"screenshot.png", "/sdcard/../etc/passwd", "../../x.txt"}

TfpCall(prefix, filename) == [pc |-> "call", prefix |-> prefix, filename |-> filename]

\* createTempFilePath returns
TfpReturn ==
    /\ tfp.pc = "call"
    /\ tfp' = [pc |-> "done", prefix |-> tfp.prefix, filename |-> tfp.filename,
                time |-> now,
                result |-> createTempFilePath(tfp.prefix, tfp.filename)]
    /\ UNCHANGED <<tok, cls, inv, now, tmpFiles, devFiles, srv>>

----------------------------------------------------------------------------
(* Tool requests and the state of an invocation *)

TempTools == {"inspect_ui", "adb_pull", "adb_push", "dump_image"}

Devices == {Undefined, Some(""), Some("emulator-5554")}

Flags == {Undefined, Some(TRUE), Some(FALSE)}

RemotePaths == {"", "  ", "/sdcard/a.txt", " /sdcard/dir/b.txt "}

OutputPaths == {Undefined, Some("  "), Some("/sdcard/ui.xml")}

\* "hi" and the empty content, base64-encoded
FileBase64s == {"aGk=", ""}

\* a shell command, an apk path, an am or a pm subcommand
Commands == {"", "  ", "ls", " list ", " echo 'a b' "}

\* amArgs, pmArgs and the logcat filter
ArgTexts == {Undefined, Some(""), Some("-n 'a b'")}

\* the lines argument of adb_logcat
LineCounts == {Undefined, Some(0), Some(1), Some(2), Some(5), Some(-1)}

\* the requests the transport hands to the handlers, as the schemas accept them
Requests ==
    {[tool |-> "dump_image", args |-> [device |-> d, asBase64 |-> f]] :
        d \in Devices, f \in Flags}
    \cup {[tool |-> "inspect_ui",
           args |-> [device |-> d, outputPath |-> o, asBase64 |-> f]] :
        d \in Devices, o \in OutputPaths, f \in Flags}
    \cup {[tool |-> "adb_pull",
           args |-> [remotePath |-> r, device |-> d, asBase64 |-> f]] :
        r \in RemotePaths, d \in Devices, f \in Flags}
    \cup {[tool |-> "adb_push",
           args |-> [fileBase64 |-> b, remotePath |-> r, device |-> d]] :
        b \in FileBase64s, r \in RemotePaths, d \in Devices}
    \cup {[tool |-> "adb_devices", args |-> [random_string |-> Undefined]]}
    \cup {[tool |-> "adb_shell", args |-> [command |-> c, device |-> d]] :
        c \in Commands, d \in Devices}
    \cup {[tool |-> "adb_install", args |-> [apkPath |-> c, device |-> d]] :
        c \in Commands, d \in Devices}
    \cup {[tool |-> "adb_logcat", args |-> [filter |-> a, device |-> d, lines |-> n]] :
        a \in ArgTexts, d \in {Undefined, Some("emulator-5554")}, n \in LineCounts}
    \cup {[tool |-> "adb_activity_manager",
           args |-> [amCommand |-> c, amArgs |-> a, device |-> d]] :
        c \in Commands, a \in ArgTexts, d \in {Undefined, Some("emulator-5554")}}
    \cup {[tool |-> "adb_package_manager",
           args |-> [pmCommand |-> c, pmArgs |-> a, device |-> d]] :
        c \in Commands, a \in ArgTexts, d \in {Undefined, Some("emulator-5554")}}

\* the requests of the interleaved runs: one per handler that owns a temp
\* file, the two transfers naming remote files of the same base name
ConcRequests ==
    {[tool |-> "dump_image", args |-> [device |-> Undefined, asBase64 |-> Some(TRUE)]],
     [tool |-> "inspect_ui",
      args |-> [device |-> Undefined, outputPath |-> Undefined, asBase64 |-> Undefined]],
     [tool |-> "adb_pull",
      args |-> [remotePath |-> "/sdcard/a.txt", device |-> Undefined,
                asBase64 |-> Undefined]],
     [tool |-> "adb_push",
      args |-> [fileBase64 |-> "aGk=", remotePath |-> "/data/a.txt",
                device |-> Undefined]]}

\* the defaults of the schemas (src/src/types.ts:56-83)
ParseArgs(tool, raw) ==
    IF tool = "adb_pull" THEN [raw EXCEPT !.asBase64 = WithDefault(@, TRUE)]
    ELSE IF tool \in {"dump_image", "inspect_ui"}
    THEN [raw EXCEPT !.asBase64 = WithDefault(@, FALSE)]
    ELSE IF tool = "adb_logcat" THEN [raw EXCEPT !.lines = WithDefault(@, 50)]
    ELSE raw

NoResponse == [content |-> <<>>]

\* pc, args and the locals of a handler, and what it has done so far: raw is
\* the request as sent, calls the argv of every runAdb call, events the result
\* of every awaited subprocess, read and write, pulled the bytes its own adb
\* pull left in the temp file, stdout the output of the subprocess whose
\* output the response is made of, cleaned the paths handed to cleanupTempFile,
\* logged the level cleanupTempFile logged at
IdleInvocation ==
    [pc |-> "idle", tool |-> "", raw |-> <<>>, args |-> <<>>, deviceArgs |-> <<>>,
     tempFilePath |-> "", remotePath |-> "", calls |-> <<>>, events |-> <<>>,
     pulled |-> Undefined, stdout |-> Undefined, stderr |-> Undefined,
     warned |-> FALSE, cleaned |-> <<>>, logged |-> "", response |-> NoResponse]

\* what the subprocesses of the handlers end with
AdbOutcomes ==
    {Resolved("1 file pulled\n", ""),
     Resolved("", "adb: error: failed"),
     Rejected("spawn adb ENOENT")}

\* adb pull of a remote file: it has nothing to transfer when the file is
\* not on the device
PullOutcomes(remotePath) ==
    IF remotePath \in DOMAIN devFiles THEN AdbOutcomes
    ELSE {Rejected("adb: error: remote object does not exist"),
          Rejected("spawn adb ENOENT")}

\* adb push of a local file: it has nothing to transfer when the file is gone
PushOutcomes(localPath) ==
    IF localPath \in DOMAIN tmpFiles THEN AdbOutcomes
    ELSE {Rejected("adb: error: cannot stat local file"),
          Rejected("spawn adb ENOENT")}

\* the bytes a capture leaves in the file on the device: "<a/>", and two
\* bytes that are no text
FileContents == {<<60, 97, 47, 62>>, <<255, 0>>}

\* the bytes of the file that is on the device when the server starts:
\* nothing, one byte, two bytes that are no text, three bytes, four bytes
StoredContents == {<<>>, <<10>>, <<255, 0>>, <<104, 105, 33>>, <<60, 97, 47, 62>>}

\* the file on the device when the server starts, holding content
DeviceFilesAtStart(content) == [f \in {"/sdcard/a.txt"} |-> content]

\* the files at path holds content, in the file system files
WithFile(files, path, content) ==
    [f \in DOMAIN files \cup {path} |-> IF f = path THEN content ELSE files[f]]

\* the file at path is removed from the file system files
WithoutFile(files, path) == [f \in DOMAIN files \ {path} |-> files[f]]

----------------------------------------------------------------------------
(* Steps common to the handlers *)

\* the transport of a connected server calls the handler of the request's
\* tool with the parsed arguments
DispatchFrom(p, requests) ==
    /\ srv.pc = "ready"
    /\ inv[p].pc = "idle"
    /\ \E req \in requests :
         inv' = [inv EXCEPT ![p] =
                    [IdleInvocation EXCEPT !.pc = "entry", !.tool = req.tool,
                                           !.raw = req.args,
                                           !.args = ParseArgs(req.tool, req.args)]]
    /\ UNCHANGED <<tok, cls, now, tmpFiles, devFiles, srv, tfp>>

Dispatch(p) == DispatchFrom(p, Requests)

DispatchConc(p) == DispatchFrom(p, ConcRequests)

\* Date.now() advances
Tick ==
    /\ now < MaxTime
    /\ now' = now + 1
    /\ UNCHANGED <<tok, cls, inv, tmpFiles, devFiles, srv, tfp>>

\* runAdb(argv) is called: the argv is recorded, the handler awaits at pc
CallAdb(rec, argv, pc) == [rec EXCEPT !.calls = Append(@, argv), !.pc = pc]

\* an awaited subprocess, readFile or writeFile has ended: "ok" or "failed"
Settled(rec, result) == [rec EXCEPT !.events = Append(@, result)]

\* if (stderr) { log(LogLevel.WARN, ...) }: the stderr of a subprocess that
\* resolved is logged when it is not empty, and nothing else is done with it
StderrWarned(rec, stderrText) ==
    [rec EXCEPT !.stderr = Some(stderrText), !.warned = (stderrText # "")]

\* faulty variant: the return statement is not followed by a finally block
ReturnWithoutFinally(rec, response) ==
    [rec EXCEPT !.response = response, !.pc = "done"]

\* a return statement inside try or catch, followed by the finally block:
\* cleanupTempFile(tempFilePath) is called and awaited
ReturnThroughFinally(rec, response) ==
    [rec EXCEPT !.response = response,
                !.cleaned = Append(@, rec.tempFilePath),
                !.pc = "unlink"]

\* faulty variant: the catch block rethrows
CatchErrorRethrow(rec, prefix, errorMsg) ==
    [rec EXCEPT !.pc = "threw"]

\* the catch block of a handler
CatchError(rec, prefix, errorMsg) ==
    ReturnThroughFinally(rec, ErrorResponse(prefix \o ": " \o errorMsg))

\* faulty variant: cleanupTempFile has no try/catch, the error of unlink
\* leaves the finally block and replaces the handler's return value
AfterUnlinkRethrow(rec, removed) ==
    IF removed THEN [rec EXCEPT !.logged = "DEBUG", !.pc = "done"]
    ELSE [rec EXCEPT !.response = NoResponse, !.pc = "threw"]

\* cleanupTempFile after unlink has ended (src/src/index.ts:270-276): it logs
\* at DEBUG, or catches the error and logs at WARN; then it returns
AfterUnlink(rec, removed) ==
    [rec EXCEPT !.logged = IF removed THEN "DEBUG" ELSE "WARN", !.pc = "done"]

\* cleanupTempFile (src/src/index.ts:269-277): unlink removes the file, or
\* throws (no such file, or the file cannot be removed); then the handler's
\* response is returned
CleanupTempFile(p) ==
    /\ inv[p].pc = "unlink"
    /\ \/ /\ inv[p].tempFilePath \in DOMAIN tmpFiles
          /\ tmpFiles' = WithoutFile(tmpFiles, inv[p].tempFilePath)
          /\ inv' = [inv EXCEPT ![p] = AfterUnlink(@, TRUE)]
       \/ /\ UNCHANGED tmpFiles
          /\ inv' = [inv EXCEPT ![p] = AfterUnlink(@, FALSE)]
    /\ UNCHANGED <<tok, cls, now, devFiles, srv, tfp>>

\* the file at path holds content
FileWritten(path, content) == WithFile(tmpFiles, path, content)

\* what awaiting readFile gives: the bytes of an existing file, or an error
ReadFileResults(path) ==
    IF path \in DOMAIN tmpFiles
    THEN {[ok |-> TRUE, data |-> tmpFiles[path]],
          [ok |-> FALSE, message |-> "EACCES: permission denied"]}
    ELSE {[ok |-> FALSE, message |-> "ENOENT: no such file or directory"]}

\* what awaiting writeFile gives
WriteFileResults ==
    {[ok |-> TRUE], [ok |-> FALSE, message |-> "ENOSPC: no space left on device"]}

----------------------------------------------------------------------------
(* Steps common to the capture handlers dump_image and inspect_ui *)

\* the capture subprocess has ended: one that resolved has left its
\* artifact at the remote path, then adb pull is called
CaptureDone(p, prefix, pullPc) ==
    \E outcome \in AdbOutcomes :
        IF outcome.kind = "rejected"
        THEN /\ inv' = [inv EXCEPT ![p] =
                          CatchError(Settled(@, "failed"), prefix, outcome.message)]
             /\ UNCHANGED devFiles
        ELSE /\ \E content \in FileContents :
                  devFiles' = WithFile(devFiles, inv[p].remotePath, content)
             /\ inv' = [inv EXCEPT ![p] =
                          CallAdb(Settled(@, "ok"),
                                  @.deviceArgs \o <<"pull", @.remotePath, @.tempFilePath>>,
                                  pullPc)]

\* faulty variant: after a failed pull the remote artifact is removed all
\* the same
TransferDoneRemoving(p, prefix, rmPc) ==
    \E outcome \in PullOutcomes(inv[p].remotePath) :
        /\ tmpFiles' = IF outcome.kind = "rejected" THEN tmpFiles
                       ELSE FileWritten(inv[p].tempFilePath, devFiles[inv[p].remotePath])
        /\ inv' = [inv EXCEPT ![p] =
                     CallAdb(Settled(@, IF outcome.kind = "rejected" THEN "failed"
                                        ELSE "ok"),
                             @.deviceArgs \o <<"shell", "rm", @.remotePath>>,
                             rmPc)]

\* adb pull has ended: one that resolved has copied the remote file to the
\* temp file, then adb shell rm is called
TransferDone(p, prefix, rmPc) ==
    \E outcome \in PullOutcomes(inv[p].remotePath) :
        IF outcome.kind = "rejected"
        THEN /\ inv' = [inv EXCEPT ![p] =
                          CatchError(Settled(@, "failed"), prefix, outcome.message)]
             /\ UNCHANGED tmpFiles
        ELSE /\ tmpFiles' = FileWritten(inv[p].tempFilePath, devFiles[inv[p].remotePath])
             /\ inv' = [inv EXCEPT ![p] =
                          CallAdb([Settled(@, "ok") EXCEPT
                                      !.pulled = Some(devFiles[inv[p].remotePath])],
                                  @.deviceArgs \o <<"shell", "rm", @.remotePath>>,
                                  rmPc)]

\* faulty variant: a failed removal is ignored and the handler goes on to read
\* the temp file
RemoveDoneTolerant(p, prefix, readPc) ==
    \E outcome \in AdbOutcomes :
        IF outcome.kind = "rejected"
        THEN /\ inv' = [inv EXCEPT ![p] = [Settled(@, "failed") EXCEPT !.pc = readPc]]
             /\ UNCHANGED devFiles
        ELSE /\ devFiles' = WithoutFile(devFiles, inv[p].remotePath)
             /\ inv' = [inv EXCEPT ![p] = [Settled(@, "ok") EXCEPT !.pc = readPc]]

\* adb shell rm has ended: one that resolved has removed the remote file,
\* then readFile is called
RemoveDone(p, prefix, readPc) ==
    \E outcome \in AdbOutcomes :
        IF outcome.kind = "rejected"
        THEN /\ inv' = [inv EXCEPT ![p] =
                          CatchError(Settled(@, "failed"), prefix, outcome.message)]
             /\ UNCHANGED devFiles
        ELSE /\ devFiles' = WithoutFile(devFiles, inv[p].remotePath)
             /\ inv' = [inv EXCEPT ![p] = [Settled(@, "ok") EXCEPT !.pc = readPc]]

----------------------------------------------------------------------------
(* dump_image (src/src/index.ts:666-715) *)

DumpImageStart(p) ==
    /\ inv[p].pc = "entry"
    /\ inv[p].tool = "dump_image"
    /\ LET deviceArgs == buildDeviceArgs(inv[p].args.device)
           remotePath == "/sdcard/screenshot.png"
           rec == [inv[p] EXCEPT
                     !.deviceArgs = deviceArgs,
                     !.tempFilePath = createTempFilePath("adb-mcp", "screenshot.png"),
                     !.remotePath = remotePath]
       IN  inv' = [inv EXCEPT ![p] =
                     CallAdb(rec, deviceArgs \o <<"shell", "screencap", "-p", remotePath>>,
                             "screencap")]
    /\ UNCHANGED <<tok, cls, now, tmpFiles, devFiles, srv, tfp>>

DumpImageScreencap(p) ==
    /\ inv[p].pc = "screencap"
    /\ CaptureDone(p, "Error taking screenshot", "image_pull")
    /\ UNCHANGED <<tok, cls, now, tmpFiles, srv, tfp>>

DumpImagePull(p) ==
    /\ inv[p].pc = "image_pull"
    /\ TransferDone(p, "Error taking screenshot", "image_rm")
    /\ UNCHANGED <<tok, cls, now, devFiles, srv, tfp>>

DumpImageRm(p) ==
    /\ inv[p].pc = "image_rm"
    /\ RemoveDone(p, "Error taking screenshot", "image_read")
    /\ UNCHANGED <<tok, cls, now, tmpFiles, srv, tfp>>

\* faulty variant: the bytes are encoded whatever the flag
DumpImageTextEncoded(asBase64, data) == Base64Encode(data)

\* the text of the response (src/src/index.ts:689-701): if (args.asBase64)
DumpImageText(asBase64, data) ==
    IF asBase64 THEN Base64Encode(data)
    ELSE "Screenshot captured successfully"

DumpImageRead(p) ==
    /\ inv[p].pc = "image_read"
    /\ \E read \in ReadFileResults(inv[p].tempFilePath) :
         inv' = [inv EXCEPT ![p] =
                   IF ~read.ok
                   THEN CatchError(Settled(@, "failed"), "Error taking screenshot",
                                   read.message)
                   ELSE ReturnThroughFinally(Settled(@, "ok"),
                            TextResponse(DumpImageText(@.args.asBase64, read.data)))]
    /\ UNCHANGED <<tok, cls, now, tmpFiles, devFiles, srv, tfp>>

----------------------------------------------------------------------------
(* inspect_ui (src/src/index.ts:421-475) *)

InspectUiStart(p) ==
    /\ inv[p].pc = "entry"
    /\ inv[p].tool = "inspect_ui"
    /\ LET deviceArgs == buildDeviceArgs(inv[p].args.device)
           outputPath == inv[p].args.outputPath
           remotePath == IF IsTruthy(outputPath) /\ Trim(outputPath[1]) # ""
                         THEN Trim(outputPath[1])
                         ELSE "/sdcard/window_dump.xml"
           rec == [inv[p] EXCEPT
                     !.deviceArgs = deviceArgs,
                     !.tempFilePath = createTempFilePath("adb-mcp", "window_dump.xml"),
                     !.remotePath = remotePath]
       IN  inv' = [inv EXCEPT ![p] =
                     CallAdb(rec, deviceArgs \o <<"shell", "uiautomator", "dump", remotePath>>,
                             "ui_dump")]
    /\ UNCHANGED <<tok, cls, now, tmpFiles, devFiles, srv, tfp>>

InspectUiDump(p) ==
    /\ inv[p].pc = "ui_dump"
    /\ CaptureDone(p, "Error dumping UI hierarchy", "ui_pull")
    /\ UNCHANGED <<tok, cls, now, tmpFiles, srv, tfp>>

InspectUiPull(p) ==
    /\ inv[p].pc = "ui_pull"
    /\ TransferDone(p, "Error dumping UI hierarchy", "ui_rm")
    /\ UNCHANGED <<tok, cls, now, devFiles, srv, tfp>>

InspectUiRm(p) ==
    /\ inv[p].pc = "ui_rm"
    /\ RemoveDone(p, "Error dumping UI hierarchy", "ui_read")
    /\ UNCHANGED <<tok, cls, now, tmpFiles, srv, tfp>>

\* faulty variant: the bytes are encoded whatever the flag
InspectUiTextEncoded(asBase64, data) == Base64Encode(data)

\* the text of the response (src/src/index.ts:443-461): args.asBase64 !==
\* false encodes the bytes, else the file is read as 'utf8'
InspectUiText(asBase64, data) ==
    IF asBase64 # FALSE THEN Base64Encode(data) ELSE Utf8Decode(data)

InspectUiRead(p) ==
    /\ inv[p].pc = "ui_read"
    /\ \E read \in ReadFileResults(inv[p].tempFilePath) :
         inv' = [inv EXCEPT ![p] =
                   IF ~read.ok
                   THEN CatchError(Settled(@, "failed"), "Error dumping UI hierarchy",
                                   read.message)
                   ELSE ReturnThroughFinally(Settled(@, "ok"),
                            TextResponse(InspectUiText(@.args.asBase64, read.data)))]
    /\ UNCHANGED <<tok, cls, now, tmpFiles, devFiles, srv, tfp>>

----------------------------------------------------------------------------
(* adb_pull (src/src/index.ts:571-621) *)

PullStart(p) ==
    /\ inv[p].pc = "entry"
    /\ inv[p].tool = "adb_pull"
    /\ LET deviceArgs == buildDeviceArgs(inv[p].args.device)
           tempFilePath ==
               createTempFilePath("adb-mcp", basename(inv[p].args.remotePath))
           remotePath == Trim(inv[p].args.remotePath)
           rec == [inv[p] EXCEPT !.deviceArgs = deviceArgs,
                                 !.tempFilePath = tempFilePath,
                                 !.remotePath = remotePath]
       IN  inv' = [inv EXCEPT ![p] =
                     IF remotePath = ""
                     THEN CatchError(rec, "Error pulling file",
                                     "Remote path must not be empty")
                     ELSE CallAdb(rec, deviceArgs \o <<"pull", remotePath, tempFilePath>>,
                                  "pull")]
    /\ UNCHANGED <<tok, cls, now, tmpFiles, devFiles, srv, tfp>>

PullDone(p) ==
    /\ inv[p].pc = "pull"
    /\ \E outcome \in PullOutcomes(inv[p].remotePath) :
         IF outcome.kind = "rejected"
         THEN /\ inv' = [inv EXCEPT ![p] =
                           CatchError(Settled(@, "failed"), "Error pulling file",
                                      outcome.message)]
              /\ UNCHANGED tmpFiles
         ELSE /\ tmpFiles' = FileWritten(inv[p].tempFilePath, devFiles[inv[p].remotePath])
              /\ LET rec == [StderrWarned(Settled(inv[p], "ok"), outcome.stderr) EXCEPT
                                !.pulled = Some(devFiles[inv[p].remotePath])]
                 IN  inv' = [inv EXCEPT ![p] =
                               IF rec.args.asBase64 # FALSE
                               THEN [rec EXCEPT !.pc = "pull_read"]
                               ELSE ReturnThroughFinally(
                                        [rec EXCEPT !.stdout = Some(outcome.stdout)],
                                        TextResponse(outcome.stdout))]
    /\ UNCHANGED <<tok, cls, now, devFiles, srv, tfp>>

PullRead(p) ==
    /\ inv[p].pc = "pull_read"
    /\ \E read \in ReadFileResults(inv[p].tempFilePath) :
         inv' = [inv EXCEPT ![p] =
                   IF ~read.ok
                   THEN CatchError(Settled(@, "failed"), "Error pulling file", read.message)
                   ELSE ReturnThroughFinally(Settled(@, "ok"),
                            TextResponse(Base64Encode(read.data)))]
    /\ UNCHANGED <<tok, cls, now, tmpFiles, devFiles, srv, tfp>>

----------------------------------------------------------------------------
(* adb_push (src/src/index.ts:624-663) *)

PushStart(p) ==
    /\ inv[p].pc = "entry"
    /\ inv[p].tool = "adb_push"
    /\ inv' = [inv EXCEPT ![p] =
                 [inv[p] EXCEPT
                    !.deviceArgs = buildDeviceArgs(inv[p].args.device),
                    !.tempFilePath =
                        createTempFilePath("adb-mcp", basename(inv[p].args.remotePath)),
                    !.pc = "push_write"]]
    /\ UNCHANGED <<tok, cls, now, tmpFiles, devFiles, srv, tfp>>

\* writeFile has ended; then the remote path is trimmed and tested
PushWritten(p) ==
    /\ inv[p].pc = "push_write"
    /\ \E write \in WriteFileResults :
         IF ~write.ok
         THEN /\ inv' = [inv EXCEPT ![p] =
                           CatchError(Settled(@, "failed"), "Error pushing file",
                                      write.message)]
              /\ UNCHANGED tmpFiles
         ELSE /\ tmpFiles' = FileWritten(inv[p].tempFilePath,
                                         Base64Decode(inv[p].args.fileBase64))
              /\ LET remotePath == Trim(inv[p].args.remotePath)
                     rec == [Settled(inv[p], "ok") EXCEPT !.remotePath = remotePath]
                 IN  inv' = [inv EXCEPT ![p] =
                               IF remotePath = ""
                               THEN CatchError(rec, "Error pushing file",
                                               "Remote path must not be empty")
                               ELSE CallAdb(rec,
                                        rec.deviceArgs \o
                                            <<"push", rec.tempFilePath, remotePath>>,
                                        "push")]
    /\ UNCHANGED <<tok, cls, now, devFiles, srv, tfp>>

\* adb push has ended: one that resolved has copied the temp file, when it
\* still exists, to the remote path
PushDone(p) ==
    /\ inv[p].pc = "push"
    /\ \E outcome \in PushOutcomes(inv[p].tempFilePath) :
         /\ inv' = [inv EXCEPT ![p] =
                      ReturnThroughFinally(
                          Settled(@, IF outcome.kind = "rejected" THEN "failed" ELSE "ok"),
                          executeAdbCommand(outcome, "Error pushing file"))]
         /\ devFiles' = IF outcome.kind = "resolved"
                        THEN WithFile(devFiles, inv[p].remotePath,
                                      tmpFiles[inv[p].tempFilePath])
                        ELSE devFiles
    /\ UNCHANGED <<tok, cls, now, tmpFiles, srv, tfp>>

----------------------------------------------------------------------------
(* The handlers that return what executeAdbCommand returns: adb_devices,   *)
(* adb_shell, adb_install, adb_activity_manager, adb_package_manager       *)
(* (src/src/index.ts:410-418, 478-530, 724-773)                            *)

\* the errorMessage each handler hands to executeAdbCommand
ErrorMessageOf(tool) ==
    CASE tool = "adb_devices" -> "Error executing adb devices"
      [] tool = "adb_shell" -> "Error executing shell command"
      [] tool = "adb_install" -> "Error installing APK"
      [] tool = "adb_activity_manager" -> "Error executing Activity Manager command"
      [] tool = "adb_package_manager" -> "Error executing Package Manager command"

\* a return statement of a handler that has no finally block
Return(rec, response) == [rec EXCEPT !.response = response, !.pc = "done"]

\* faulty variant: the text is handed on as one argument
OptionalArgumentsUnsplit(value) ==
    IF IsTruthy(value) THEN <<value[1]>> ELSE <<>>

\* value ? splitCommandArguments(value) : []
OptionalArguments(value) ==
    IF IsTruthy(value) THEN splitCommandArguments(value[1]) ELSE <<>>

DevicesStart(p) ==
    /\ inv[p].pc = "entry"
    /\ inv[p].tool = "adb_devices"
    /\ inv' = [inv EXCEPT ![p] = CallAdb(@, <<"devices">>, "exec")]
    /\ UNCHANGED <<tok, cls, now, tmpFiles, devFiles, srv, tfp>>

\* faulty variant: the command is split into words like the argument texts
ShellArgumentsSplit(trimmedCommand) ==
    <<"shell">> \o splitCommandArguments(trimmedCommand)

\* ["shell", trimmedCommand] (src/src/index.ts:495): the command is one
\* element of the argument vector
ShellArguments(trimmedCommand) == <<"shell", trimmedCommand>>

ShellStart(p) ==
    /\ inv[p].pc = "entry"
    /\ inv[p].tool = "adb_shell"
    /\ LET deviceArgs == buildDeviceArgs(inv[p].args.device)
           trimmedCommand == Trim(inv[p].args.command)
           rec == [inv[p] EXCEPT !.deviceArgs = deviceArgs]
       IN  inv' = [inv EXCEPT ![p] =
                     IF trimmedCommand = ""
                     THEN Return(rec, ErrorResponse("Shell command must not be empty"))
                     ELSE CallAdb(rec, deviceArgs \o ShellArguments(trimmedCommand),
                                  "exec")]
    /\ UNCHANGED <<tok, cls, now, tmpFiles, devFiles, srv, tfp>>

\* adb_install: the thrown Error is caught by the handler's catch block
InstallStart(p) ==
    /\ inv[p].pc = "entry"
    /\ inv[p].tool = "adb_install"
    /\ LET deviceArgs == buildDeviceArgs(inv[p].args.device)
           apkPath == Trim(inv[p].args.apkPath)
           rec == [inv[p] EXCEPT !.deviceArgs = deviceArgs]
       IN  inv' = [inv EXCEPT ![p] =
                     IF apkPath = ""
                     THEN Return(rec, ErrorResponse("Error installing APK" \o ": " \o
                                                    "APK path must not be empty"))
                     ELSE CallAdb(rec, deviceArgs \o <<"install", "-r", apkPath>>, "exec")]
    /\ UNCHANGED <<tok, cls, now, tmpFiles, devFiles, srv, tfp>>

ActivityManagerStart(p) ==
    /\ inv[p].pc = "entry"
    /\ inv[p].tool = "adb_activity_manager"
    /\ LET deviceArgs == buildDeviceArgs(inv[p].args.device)
           amCommand == Trim(inv[p].args.amCommand)
           additionalArgs == OptionalArguments(inv[p].args.amArgs)
           rec == [inv[p] EXCEPT !.deviceArgs = deviceArgs]
       IN  inv' = [inv EXCEPT ![p] =
                     IF amCommand = ""
                     THEN Return(rec, ErrorResponse(
                                          "Activity Manager command must not be empty"))
                     ELSE CallAdb(rec,
                              deviceArgs \o <<"shell", "am", amCommand>> \o additionalArgs,
                              "exec")]
    /\ UNCHANGED <<tok, cls, now, tmpFiles, devFiles, srv, tfp>>

PackageManagerStart(p) ==
    /\ inv[p].pc = "entry"
    /\ inv[p].tool = "adb_package_manager"
    /\ LET deviceArgs == buildDeviceArgs(inv[p].args.device)
           pmCommand == Trim(inv[p].args.pmCommand)
           additionalArgs == OptionalArguments(inv[p].args.pmArgs)
           rec == [inv[p] EXCEPT !.deviceArgs = deviceArgs]
       IN  inv' = [inv EXCEPT ![p] =
                     IF pmCommand = ""
                     THEN Return(rec, ErrorResponse(
                                          "Package Manager command must not be empty"))
                     ELSE CallAdb(rec,
                              deviceArgs \o <<"shell", "pm", pmCommand>> \o additionalArgs,
                              "exec")]
    /\ UNCHANGED <<tok, cls, now, tmpFiles, devFiles, srv, tfp>>

\* the subprocess of executeAdbCommand has ended: the handler returns the
\* response executeAdbCommand makes of its outcome
ExecuteAdbCommandDone(p) ==
    /\ inv[p].pc = "exec"
    /\ \E outcome \in AdbOutcomes :
         inv' = [inv EXCEPT ![p] =
                   Return(Settled(@, IF outcome.kind = "rejected" THEN "failed" ELSE "ok"),
                          executeAdbCommand(outcome, ErrorMessageOf(@.tool)))]
    /\ UNCHANGED <<tok, cls, now, tmpFiles, devFiles, srv, tfp>>

----------------------------------------------------------------------------
(* adb_logcat (src/src/index.ts:533-568) *)

\* String.prototype.split(/\r?\n/)
RECURSIVE SplitLines(_)
SplitLines(s) ==
    LET breaks == {k \in 1..Len(s) : CharAt(s, k) = "\n"}
    IN  IF breaks = {} THEN <<s>>
        ELSE LET k == Min(breaks)
                 cr == k > 1 /\ CharAt(s, k - 1) = "\r"
                 line == SubSeq(s, 1, IF cr THEN k - 2 ELSE k - 1)
             IN  <<line>> \o SplitLines(SubSeq(s, k + 1, Len(s)))

\* Array.prototype.join("\n")
RECURSIVE JoinLines(_)
JoinLines(lines) ==
    IF Len(lines) = 0 THEN ""
    ELSE IF Len(lines) = 1 THEN lines[1]
    ELSE lines[1] \o "\n" \o JoinLines(Tail(lines))

\* Array.prototype.slice(-n) for an integer n > 0
SliceLast(items, n) == SubSeq(items, Max({1, Len(items) - n + 1}), Len(items))

\* lines > 0 ? logLines.slice(-lines) : logLines
LimitLines(logLines, lines) ==
    IF lines > 0 THEN SliceLast(logLines, lines) ELSE logLines

\* what adb logcat -d writes to its stdout
LogOutputs == {"", "a\nb\nc\n", "a\r\nb\r\n", "a\nb\nc"}

LogcatOutcomes ==
    {Resolved(out, "") : out \in LogOutputs}
    \cup {Resolved("a\nb\nc\n", "warning"), Rejected("spawn adb ENOENT")}

\* const lines = args.lines || 50
LogcatLimit(args) == IF args.lines = 0 THEN 50 ELSE args.lines

\* faulty variant: a non-empty stderr is thrown as an error instead of logged
LogcatResolvedClassified(rec, outcome) ==
    IF outcome.stderr # ""
    THEN Return(StderrWarned(rec, outcome.stderr),
                ErrorResponse("Error reading logcat" \o ": " \o outcome.stderr))
    ELSE Return([StderrWarned(rec, outcome.stderr) EXCEPT !.stdout = Some(outcome.stdout)],
                TextResponse(JoinLines(
                    LimitLines(SplitLines(outcome.stdout), LogcatLimit(rec.args)))))

\* the try block after runAdb has resolved (src/src/index.ts:547-556): stderr
\* is logged if there is any, the last lines of stdout are returned
LogcatResolved(rec, outcome) ==
    Return([StderrWarned(rec, outcome.stderr) EXCEPT !.stdout = Some(outcome.stdout)],
           TextResponse(JoinLines(
               LimitLines(SplitLines(outcome.stdout), LogcatLimit(rec.args)))))

LogcatStart(p) ==
    /\ inv[p].pc = "entry"
    /\ inv[p].tool = "adb_logcat"
    /\ LET deviceArgs == buildDeviceArgs(inv[p].args.device)
           filterArgs == OptionalArguments(inv[p].args.filter)
           rec == [inv[p] EXCEPT !.deviceArgs = deviceArgs]
       IN  inv' = [inv EXCEPT ![p] =
                     CallAdb(rec, deviceArgs \o <<"logcat", "-d">> \o filterArgs, "logcat")]
    /\ UNCHANGED <<tok, cls, now, tmpFiles, devFiles, srv, tfp>>

LogcatDone(p) ==
    /\ inv[p].pc = "logcat"
    /\ \E outcome \in LogcatOutcomes :
         inv' = [inv EXCEPT ![p] =
                   IF outcome.kind = "rejected"
                   THEN Return(Settled(@, "failed"),
                               ErrorResponse("Error reading logcat" \o ": " \o outcome.message))
                   ELSE LogcatResolved(Settled(@, "ok"), outcome)]
    /\ UNCHANGED <<tok, cls, now, tmpFiles, devFiles, srv, tfp>>

----------------------------------------------------------------------------
(* runServer (src/src/index.ts:778-800) *)

Logged(server, level, message) ==
    [server EXCEPT !.log = Append(@, [level |-> level, message |-> message])]

\* the server is connected; what runServer logged is left aside
ServerReady == [pc |-> "ready", log |-> <<>>, exitCode |-> <<>>]

\* faulty variant: the failed check is not caught inside runServer's try
\* block, it reaches the outer catch block
AfterAdbCheckFatal(server, outcome) ==
    IF outcome.kind = "rejected"
    THEN [Logged(server, "ERROR", "Error connecting server:") EXCEPT
             !.exitCode = Some(1), !.pc = "exited"]
    ELSE [Logged(server, "INFO", "ADB detected") EXCEPT !.pc = "connect"]

\* the inner try/catch around runAdb(["version"]); then the transport is
\* created and server.connect is called
AfterAdbCheck(server, outcome) ==
    [Logged(server, IF outcome.kind = "rejected" THEN "WARN" ELSE "INFO",
                    IF outcome.kind = "rejected" THEN "ADB not found in PATH"
                    ELSE "ADB detected")
        EXCEPT !.pc = "connect"]

\* runServer is called: it logs and calls runAdb(["version"])
RunServerStart ==
    /\ srv.pc = "start"
    /\ srv' = [Logged(srv, "INFO", "Starting ADB MCP Server...") EXCEPT !.pc = "adb_version"]
    /\ UNCHANGED <<tok, cls, inv, now, tmpFiles, devFiles, tfp>>

AdbVersionChecked ==
    /\ srv.pc = "adb_version"
    /\ \E outcome \in AdbOutcomes : srv' = AfterAdbCheck(srv, outcome)
    /\ UNCHANGED <<tok, cls, inv, now, tmpFiles, devFiles, tfp>>

\* await server.connect(transport) has ended: the server is ready, or the
\* outer catch block logs the error and calls process.exit(1)
TransportConnected ==
    /\ srv.pc = "connect"
    /\ \E connected \in BOOLEAN :
         srv' = IF connected
                THEN [Logged(srv, "INFO", "ADB MCP Server connected and ready") EXCEPT
                         !.pc = "ready"]
                ELSE [Logged(srv, "ERROR", "Error connecting server:") EXCEPT
                         !.exitCode = Some(1), !.pc = "exited"]
    /\ UNCHANGED <<tok, cls, inv, now, tmpFiles, devFiles, tfp>>

----------------------------------------------------------------------------
(* The server: handlers run by the transport *)

\* a handler that owns a temp file runs to its next await, or returns
HandlerStep ==
    \/ \E p \in DOMAIN inv : DumpImageStart(p)
    \/ \E p \in DOMAIN inv : DumpImageScreencap(p)
    \/ \E p \in DOMAIN inv : DumpImagePull(p)
    \/ \E p \in DOMAIN inv : DumpImageRm(p)
    \/ \E p \in DOMAIN inv : DumpImageRead(p)
    \/ \E p \in DOMAIN inv : InspectUiStart(p)
    \/ \E p \in DOMAIN inv : InspectUiDump(p)
    \/ \E p \in DOMAIN inv : InspectUiPull(p)
    \/ \E p \in DOMAIN inv : InspectUiRm(p)
    \/ \E p \in DOMAIN inv : InspectUiRead(p)
    \/ \E p \in DOMAIN inv : PullStart(p)
    \/ \E p \in DOMAIN inv : PullDone(p)
    \/ \E p \in DOMAIN inv : PullRead(p)
    \/ \E p \in DOMAIN inv : PushStart(p)
    \/ \E p \in DOMAIN inv : PushWritten(p)
    \/ \E p \in DOMAIN inv : PushDone(p)
    \/ \E p \in DOMAIN inv : CleanupTempFile(p)

\* a handler that owns no temp file runs to its await, or returns
CommandStep ==
    \/ \E p \in DOMAIN inv : DevicesStart(p)
    \/ \E p \in DOMAIN inv : ShellStart(p)
    \/ \E p \in DOMAIN inv : InstallStart(p)
    \/ \E p \in DOMAIN inv : ActivityManagerStart(p)
    \/ \E p \in DOMAIN inv : PackageManagerStart(p)
    \/ \E p \in DOMAIN inv : ExecuteAdbCommandDone(p)
    \/ \E p \in DOMAIN inv : LogcatStart(p)
    \/ \E p \in DOMAIN inv : LogcatDone(p)

\* runServer runs to its next await, or ends
ServerStep ==
    \/ RunServerStart
    \/ AdbVersionChecked
    \/ TransportConnected

InitServer(slots) ==
    /\ inv = [p \in slots |-> IdleInvocation]
    /\ now = 0
    /\ tmpFiles = <<>>
    /\ tok = TokIdle
    /\ cls = ClsIdle
    /\ tfp = TfpIdle

\* the process starts: runServer, then one invocation, any request
Init ==
    /\ InitServer({1})
    /\ devFiles \in {DeviceFilesAtStart(content) : content \in StoredContents}
    /\ srv = ServerNotStarted

Next ==
    \/ Tick
    \/ ServerStep
    \/ \E p \in DOMAIN inv : Dispatch(p)
    \/ HandlerStep
    \/ CommandStep

Spec == Init /\ [][Next]_vars

\* NumInv invocations of the temp-file handlers of a connected server,
\* interleaved at their awaits
InitConc ==
    /\ InitServer(1..NumInv)
    /\ devFiles = DeviceFilesAtStart(<<60, 97, 47, 62>>)
    /\ srv = ServerReady

NextConc ==
    \/ Tick
    \/ \E p \in DOMAIN inv : DispatchConc(p)
    \/ HandlerStep

SpecConc == InitConc /\ [][NextConc]_vars

\* one call of createTempFilePath, at any time
InitTemp ==
    /\ tfp \in {TfpCall(prefix, filename) : prefix \in TfpPrefixes, filename \in TfpNames}
    /\ inv = <<>>
    /\ now = 0
    /\ tmpFiles = <<>>
    /\ devFiles = <<>>
    /\ srv = ServerNotStarted
    /\ tok = TokIdle
    /\ cls = ClsIdle

NextTemp == Tick \/ TfpReturn

SpecTemp == InitTemp /\ [][NextTemp]_vars

----------------------------------------------------------------------------
(* Claims about the handlers, checked under Spec and SpecConc *)

HasStarted(p) == inv[p].pc \notin {"idle", "entry"}

\* the tool of the invocation takes a device argument
TakesDevice(p) == "device" \in DOMAIN inv[p].args

\* C5: buildDeviceArgs gives ["-s", id] for a device id that is present and
\* not empty, and the empty sequence for an absent or an empty one.
C5_DeviceArgs ==
    \A p \in DOMAIN inv :
        (HasStarted(p) /\ TakesDevice(p)) =>
            LET device == inv[p].args.device
            IN  /\ (device = Undefined \/ device = Some(""))
                     => inv[p].deviceArgs = <<>>
                /\ (device # Undefined /\ device # Some(""))
                     => /\ Len(inv[p].deviceArgs) = 2
                        /\ inv[p].deviceArgs[1] = "-s"
                        /\ Some(inv[p].deviceArgs[2]) = device

C5_Witness ==
    \E p \in DOMAIN inv :
        /\ HasStarted(p)
        /\ TakesDevice(p)
        /\ inv[p].args.device = Some("emulator-5554")
        /\ inv[p].deviceArgs = <<"-s", "emulator-5554">>

\* the invocation has allocated its temp file path and has not returned
OwnsTempFile(p) ==
    inv[p].tool \in TempTools /\ inv[p].pc \notin {"idle", "entry", "done"}

\* C9 (as stated): no two invocations in flight own the same temp file path.
C9_DistinctTempPaths ==
    \A p, q \in DOMAIN inv :
        (p # q /\ OwnsTempFile(p) /\ OwnsTempFile(q))
            => inv[p].tempFilePath # inv[q].tempFilePath

\* C10: a handler that allocates a temp file has called cleanupTempFile on
\* that path exactly once when it returns, and never more than once before.
C10_CleanupExactlyOnce ==
    \A p \in DOMAIN inv :
        inv[p].tool \in TempTools =>
            /\ inv[p].pc = "done" => inv[p].cleaned = <<inv[p].tempFilePath>>
            /\ Len(inv[p].cleaned) <= 1

\* the exit by a validation error: no subprocess was spawned
C10_Witness ==
    \E p \in DOMAIN inv :
        /\ inv[p].tool = "adb_pull"
        /\ inv[p].pc = "done"
        /\ inv[p].calls = <<>>
        /\ HasIsError(inv[p].response)
        /\ inv[p].cleaned = <<inv[p].tempFilePath>>

\* C11: cleanupTempFile never raises to its caller, and the handler returns
\* the response it had before the deletion, whether unlink removed the file
\* or failed: the step of cleanupTempFile ends the invocation and leaves the
\* response as it was.
C11_CleanupKeepsResponse ==
    [][\A p \in DOMAIN inv :
          inv[p].pc = "unlink" =>
              /\ inv'[p].pc \in {"unlink", "done"}
              /\ inv'[p].response = inv[p].response]_vars

\* the deletion failed and was logged as a warning; the handler has returned
\* its successful response
C11_Witness ==
    \E p \in DOMAIN inv :
        /\ inv[p].pc = "done"
        /\ inv[p].logged = "WARN"
        /\ inv[p].cleaned = <<inv[p].tempFilePath>>
        /\ inv[p].response # NoResponse
        /\ ~HasIsError(inv[p].response)

\* the required string parameters of the tools (src/src/types.ts:45-96)
RequiredStrings ==
    {"command", "apkPath", "remotePath", "fileBase64", "amCommand", "pmCommand"}

\* a required string parameter of the request is empty once trimmed
HasBlankRequired(p) ==
    \E field \in DOMAIN inv[p].raw \cap RequiredStrings :
        Trim(inv[p].raw[field]) = ""

\* C12 (as stated): an invocation with a required string parameter that is
\* empty or whitespace-only spawns no adb subprocess, and the response it
\* returns is an error response with isError = true.
C12_BlankRequiredRejected ==
    \A p \in DOMAIN inv :
        (inv[p].pc # "idle" /\ HasBlankRequired(p)) =>
            /\ inv[p].calls = <<>>
            /\ inv[p].pc = "done" =>
                  /\ HasIsError(inv[p].response)
                  /\ inv[p].response.isError = TRUE

\* the handler has reached a return statement
HasReturned(p) == inv[p].pc \in {"unlink", "done"}

\* an awaited subprocess, read or write of the invocation has failed
HasFailedStep(p) ==
    \E k \in 1..Len(inv[p].events) : inv[p].events[k] = "failed"

\* C13: no invocation ends in an uncaught exception, whatever its
\* subprocesses, reads, writes and deletion end with; a handler that has
\* returned holds a response with a non-empty content list of text items; a
\* response after a failed step is an error response, and every error
\* response carries isError = true and a non-empty message.
C13_StructuredResponse ==
    \A p \in DOMAIN inv :
        /\ inv[p].pc # "threw"
        /\ HasReturned(p) =>
              /\ Len(inv[p].response.content) >= 1
              /\ \A k \in 1..Len(inv[p].response.content) :
                    inv[p].response.content[k].type = "text"
              /\ HasFailedStep(p) => HasIsError(inv[p].response)
              /\ HasIsError(inv[p].response) =>
                    /\ inv[p].response.isError = TRUE
                    /\ ResponseText(inv[p].response) # ""

\* a read of the temp file failed, then its deletion failed too; the handler
\* has returned an error response
C13_Witness ==
    \E p \in DOMAIN inv :
        /\ inv[p].pc = "done"
        /\ inv[p].events = <<"ok", "ok", "ok", "failed">>
        /\ inv[p].logged = "WARN"
        /\ HasIsError(inv[p].response)
        /\ ResponseText(inv[p].response) # ""

\* C14 (as stated): interleaved invocations share neither a temp file nor
\* a file on the device, so each finds what it would find running alone:
\* while an invocation awaits its pull, the artifact its capture made is on
\* the device; when it reads its temp file, the file exists and holds the
\* bytes its own pull left there.
C14_IndependentInvocations ==
    \A p \in DOMAIN inv :
        /\ inv[p].pc \in {"image_pull", "ui_pull"}
              => inv[p].remotePath \in DOMAIN devFiles
        /\ inv[p].pc \in {"image_read", "ui_read", "pull_read"}
              => /\ inv[p].tempFilePath \in DOMAIN tmpFiles
                 /\ Some(tmpFiles[inv[p].tempFilePath]) = inv[p].pulled

\* every awaited step of the invocation has succeeded, count of them
AllSucceeded(p, count) ==
    /\ Len(inv[p].events) = count
    /\ ~HasFailedStep(p)

\* text is the padded base64 text of bytes: four characters for every three
\* bytes begun, and decoding it gives the bytes back
IsBase64Of(text, bytes) ==
    /\ Len(text) = 4 * ((Len(bytes) + 2) \div 3)
    /\ Base64Decode(text) = bytes

\* C15: dump_image whose capture, transfer, removal and read all succeeded
\* returns no error; its text is "Screenshot captured successfully" when the
\* base64 flag is absent or false, and the base64 encoding of the bytes of
\* the pulled temp file when the flag is true.
C15_DumpImageSuccess ==
    \A p \in DOMAIN inv :
        (inv[p].tool = "dump_image" /\ HasReturned(p) /\ AllSucceeded(p, 4)) =>
            /\ ~HasIsError(inv[p].response)
            /\ inv[p].raw.asBase64 \in {Undefined, Some(FALSE)}
                  => ResponseText(inv[p].response) = "Screenshot captured successfully"
            /\ inv[p].raw.asBase64 = Some(TRUE)
                  => IsBase64Of(ResponseText(inv[p].response), inv[p].pulled[1])

C15_Witness ==
    \E p \in DOMAIN inv :
        /\ inv[p].tool = "dump_image"
        /\ inv[p].pc = "done"
        /\ AllSucceeded(p, 4)
        /\ inv[p].raw.asBase64 = Some(TRUE)
        /\ inv[p].pulled = Some(<<255, 0>>)
        /\ ResponseText(inv[p].response) = "/wA="

C17_PullRoundTrip ==
    \A p \in DOMAIN inv :
        (inv[p].tool = "adb_pull" /\ HasReturned(p)) =>
            /\ (inv[p].raw.asBase64 # Some(FALSE) /\ AllSucceeded(p, 2)) =>
                  /\ ~HasIsError(inv[p].response)
                  /\ IsBase64Of(ResponseText(inv[p].response), inv[p].pulled[1])
            /\ (inv[p].raw.asBase64 = Some(FALSE) /\ AllSucceeded(p, 1)) =>
                  /\ ~HasIsError(inv[p].response)
                  /\ Some(ResponseText(inv[p].response)) = inv[p].stdout

\* the flag was not supplied; the one byte pulled, 10, came back as "Cg=="
C17_Witness ==
    \E p \in DOMAIN inv :
        /\ inv[p].tool = "adb_pull"
        /\ inv[p].pc = "done"
        /\ AllSucceeded(p, 2)
        /\ inv[p].raw.asBase64 = Undefined
        /\ inv[p].pulled = Some(<<10>>)
        /\ ResponseText(inv[p].response) = "Cg=="
        /\ Base64Decode(ResponseText(inv[p].response)) = <<10>>

\* the lines of a log output: each ends with a line break, but for a last
\* one that may lack it
LinesOf(text) ==
    LET pieces == SplitLines(text)
    IN  IF pieces[Len(pieces)] = "" THEN SubSeq(pieces, 1, Len(pieces) - 1)
        ELSE pieces

\* the last min(n, Len(items)) of items, in their order
LastOf(items, n) ==
    LET count == Min({n, Len(items)})
    IN  [k \in 1..count |-> items[Len(items) - count + k]]

\* C18 (as stated): adb_logcat with a line limit n >= 1 (50 when not
\* supplied) and a successful adb run returns the last min(n, total) lines
\* of the captured log output, in their order.
C18_LastLines ==
    \A p \in DOMAIN inv :
        (/\ inv[p].tool = "adb_logcat"
         /\ HasReturned(p)
         /\ AllSucceeded(p, 1)
         /\ WithDefault(inv[p].raw.lines, 50) >= 1) =>
            /\ ~HasIsError(inv[p].response)
            /\ LinesOf(ResponseText(inv[p].response))
                  = LastOf(LinesOf(inv[p].stdout[1]), WithDefault(inv[p].raw.lines, 50))

\* runServer has got the result of its adb availability check
AdbChecked == srv.pc \in {"connect", "ready", "exited"}

\* C19: a failed adb availability check is logged as a warning and nothing
\* more: runServer goes on to connect the transport, and is ready once the
\* connection is made; the process exits only after a failed connection,
\* logged as an error, and then with exit status 1.
C19_Startup ==
    /\ AdbChecked =>
          /\ Len(srv.log) >= 2
          /\ srv.log[2].level \in {"INFO", "WARN"}
    /\ srv.pc = "connect" => Len(srv.log) = 2
    /\ srv.pc = "ready" =>
          /\ srv.exitCode = Undefined
          /\ srv.log[3] = [level |-> "INFO",
                            message |-> "ADB MCP Server connected and ready"]
    /\ srv.pc = "exited" =>
          /\ srv.exitCode = Some(1)
          /\ Len(srv.log) = 3
          /\ srv.log[3] = [level |-> "ERROR", message |-> "Error connecting server:"]
    /\ srv.exitCode # Undefined => srv.pc = "exited"

\* adb was not found, and the server is connected and ready
C19_Witness ==
    /\ srv.pc = "ready"
    /\ srv.log[2] = [level |-> "WARN", message |-> "ADB not found in PATH"]
    /\ srv.exitCode = Undefined

\* the argv of the three subprocess steps of a capture handler, in the
\* order capture on the device, pull to the temp file, remove the remote file
CaptureSteps(p) ==
    <<inv[p].deviceArgs \o
          (IF inv[p].tool = "dump_image"
           THEN <<"shell", "screencap", "-p", inv[p].remotePath>>
           ELSE <<"shell", "uiautomator", "dump", inv[p].remotePath>>),
      inv[p].deviceArgs \o <<"pull", inv[p].remotePath, inv[p].tempFilePath>>,
      inv[p].deviceArgs \o <<"shell", "rm", inv[p].remotePath>>>>

\* C20: dump_image and inspect_ui call their subprocesses in the order
\* capture, pull, remove, each one once and only after the one before it
\* succeeded; when the pull fails after a capture that succeeded, the
\* removal is never called, the handler returns an error response, and the
\* artifact stays on the device.
C20_StepOrder ==
    \A p \in DOMAIN inv :
        (inv[p].tool \in {"dump_image", "inspect_ui"} /\ HasStarted(p)) =>
            /\ Len(inv[p].calls) <= 3
            /\ \A k \in 1..Len(inv[p].calls) :
                  /\ inv[p].calls[k] = CaptureSteps(p)[k]
                  /\ k > 1 => (Len(inv[p].events) >= k - 1 /\ inv[p].events[k - 1] = "ok")
            /\ (Len(inv[p].events) >= 2 /\ inv[p].events[1] = "ok"
                   /\ inv[p].events[2] = "failed") =>
                  /\ HasReturned(p)
                  /\ Len(inv[p].calls) = 2
                  /\ inv[p].events = <<"ok", "failed">>
                  /\ HasIsError(inv[p].response)
                  /\ inv[p].remotePath \in DOMAIN devFiles

\* the pull failed after the capture; the invocation has ended with an
\* error and its artifact is on the device
C20_Witness ==
    \E p \in DOMAIN inv :
        /\ inv[p].tool = "inspect_ui"
        /\ inv[p].pc = "done"
        /\ inv[p].events = <<"ok", "failed">>
        /\ Len(inv[p].calls) = 2
        /\ HasIsError(inv[p].response)
        /\ inv[p].remotePath \in DOMAIN devFiles

\* the argv prefix that selects the device of the request
DevicePrefix(device) ==
    IF device = Undefined \/ device = Some("") THEN <<>> ELSE <<"-s", device[1]>>

\* the tokens of the optional argument text of the request
ExtraTokens(text) ==
    IF text = Undefined \/ text = Some("") THEN <<>>
    ELSE splitCommandArguments(text[1])

\* C21: adb_activity_manager and adb_package_manager with a non-blank
\* subcommand call adb once, with the device prefix, then "shell", "am" or
\* "pm", the trimmed subcommand as one element, then the tokens of the
\* argument text (none when it is absent or empty).
C21_ManagerArgv ==
    \A p \in DOMAIN inv :
        (inv[p].tool \in {"adb_activity_manager", "adb_package_manager"}
           /\ HasStarted(p)) =>
            LET am == inv[p].tool = "adb_activity_manager"
                sub == Trimmed(IF am THEN inv[p].raw.amCommand ELSE inv[p].raw.pmCommand)
                extra == ExtraTokens(IF am THEN inv[p].raw.amArgs ELSE inv[p].raw.pmArgs)
                prefix == DevicePrefix(inv[p].raw.device)
            IN  sub # "" =>
                    /\ inv[p].calls
                          = <<prefix \o <<"shell", IF am THEN "am" ELSE "pm", sub>> \o extra>>
                    /\ Len(inv[p].calls[1]) = Len(prefix) + 3 + Len(extra)
                    /\ inv[p].calls[1][Len(prefix) + 3] = sub
                    /\ inv[p].raw.device = Some("emulator-5554")
                          => SubSeq(inv[p].calls[1], 1, 2) = <<"-s", "emulator-5554">>

\* a subcommand with blanks and a quote inside, and a quoted argument
C21_Witness ==
    \E p \in DOMAIN inv :
        /\ inv[p].tool = "adb_activity_manager"
        /\ inv[p].pc = "done"
        /\ inv[p].raw.amCommand = " echo 'a b' "
        /\ inv[p].raw.amArgs = Some("-n 'a b'")
        /\ inv[p].calls = <<<<"-s", "emulator-5554", "shell", "am", "echo 'a b'",
                               "-n", "a b">>>>

\* the last non-empty component of a name, "" when it has none
LastComponent(name) ==
    LET components == SelectSeq(SplitOn(name, "/"), IsNonEmptyText)
    IN  IF Len(components) = 0 THEN "" ELSE components[Len(components)]

\* path is dir, a separator, and the one file name fileName
IsDirectChild(path, dir, fileName) ==
    /\ path = dir \o "/" \o fileName
    /\ fileName \notin {"", ".", ".."}
    /\ ~HasChar(fileName, {"/"})

\* the path returned is a direct child of the temporary directory, named by
\* the prefix, the time and the base name of the suggested name
TfpResultIsNamespaced ==
    IsDirectChild(tfp.result, tmpdir,
                  tfp.prefix \o "-" \o ToString(tfp.time) \o "-"
                      \o LastComponent(tfp.filename))

IsValidationRejected(p) ==
    /\ HasReturned(p)
    /\ HasIsError(inv[p].response)
    /\ Includes(ResponseText(inv[p].response), "must not be empty")

\* C23 (as stated): an invocation rejected by validation has done nothing
\* before: it has spawned no subprocess, awaited no read or write, and when
\* it returns no file is at its temp file path.
C23_ValidationFirst ==
    \A p \in DOMAIN inv :
        IsValidationRejected(p) =>
            /\ inv[p].calls = <<>>
            /\ inv[p].events = <<>>
            /\ inv[p].tempFilePath \notin DOMAIN tmpFiles


\* the text of a double-quoted region with its escapes resolved: a backslash
\* is dropped and the character after it kept, a final backslash is kept
RECURSIVE EscapesResolved(_)
EscapesResolved(s) ==
    IF Len(s) = 0 THEN ""
    ELSE IF Head(s) = "\\"
         THEN IF Len(s) = 1 THEN "\\"
              ELSE CharAt(s, 2) \o EscapesResolved(SubSeq(s, 3, Len(s)))
         ELSE CharAt(s, 1) \o EscapesResolved(Tail(s))

\* the input is one quote character followed by text that never closes it
OpensUnterminated(value, quote) ==
    /\ Len(value) > 1
    /\ CharAt(value, 1) = quote
    /\ ~HasChar(Tail(value), {quote})

\* C24: splitCommandArguments never emits an empty token; an empty quoted
\* argument ('' or "") standing alone gives no token; a quote that is never
\* closed raises nothing and the text after it is the last token (taken
\* literally after a single quote, with escapes resolved after a double one).
C24_NoEmptyToken ==
    tok.pc = "done" =>
        /\ \A i \in 1..Len(tok.result) : Len(tok.result[i]) >= 1
        /\ tok.value \in {"''", "\"\""} => tok.result = <<>>
        /\ OpensUnterminated(tok.value, "'")
              => tok.result = <<Tail(tok.value)>>
        /\ OpensUnterminated(tok.value, "\"")
              => tok.result = <<EscapesResolved(Tail(tok.value))>>

\* the same with the single-quoted text free of backslashes
C24_NoEmptyTokenUnescaped ==
    tok.pc = "done" =>
        /\ \A i \in 1..Len(tok.result) : Len(tok.result[i]) >= 1
        /\ tok.value \in {"''", "\"\""} => tok.result = <<>>
        /\ (OpensUnterminated(tok.value, "'") /\ ~HasChar(tok.value, {"\\"}))
              => tok.result = <<Tail(tok.value)>>
        /\ OpensUnterminated(tok.value, "\"")
              => tok.result = <<EscapesResolved(Tail(tok.value))>>



\* the error texts a capture tool can return after its removal step failed
RemovalErrors(tool) ==
    {(IF tool = "dump_image" THEN "Error taking screenshot"
                             ELSE "Error dumping UI hierarchy")
         \o ": " \o outcome.message :
             outcome \in {o \in AdbOutcomes : o.kind = "rejected"}}

\* C25: dump_image and inspect_ui return a non-error response only after the
\* capture, the pull, the remote removal and the temp-file read all
\* succeeded; when the removal alone fails, after the artifact was
\* transferred, the handler returns an error response whose text is the error
\* message, never reads the temp file, and the transferred bytes are in no
\* response.
C25_AllStepsOrError ==
    \A p \in DOMAIN inv :
        (inv[p].tool \in {"dump_image", "inspect_ui"} /\ HasReturned(p)) =>
            /\ ~HasIsError(inv[p].response)
                  => (AllSucceeded(p, 4) /\ Len(inv[p].calls) = 3)
            /\ (Len(inv[p].events) >= 3
                   /\ SubSeq(inv[p].events, 1, 3) = <<"ok", "ok", "failed">>) =>
                  /\ inv[p].events = <<"ok", "ok", "failed">>
                  /\ inv[p].pulled # Undefined
                  /\ HasIsError(inv[p].response)
                  /\ ResponseText(inv[p].response) \in RemovalErrors(inv[p].tool)

\* the removal failed after the capture and the pull had succeeded; the
\* invocation has ended with the error text although the bytes were pulled
C25_Witness ==
    \E p \in DOMAIN inv :
        /\ inv[p].tool = "dump_image"
        /\ inv[p].pc = "done"
        /\ inv[p].raw.asBase64 = Some(TRUE)
        /\ inv[p].events = <<"ok", "ok", "failed">>
        /\ inv[p].pulled # Undefined
        /\ HasIsError(inv[p].response)
        /\ ResponseText(inv[p].response) = "Error taking screenshot: spawn adb ENOENT"



\* C26: adb_logcat and adb_pull do not classify stderr: when the adb process
\* has resolved (and, for adb_pull, the file read has not failed) the response
\* carries no isError flag whatever stderr holds, a non-empty stderr being
\* logged as a warning and no more; an error response of these tools comes
\* only from a subprocess or a file read that threw, or from the validation.
C26_StderrUnclassified ==
    \A p \in DOMAIN inv :
        (inv[p].tool \in {"adb_logcat", "adb_pull"} /\ HasReturned(p)) =>
            /\ (inv[p].events # <<>> /\ ~HasFailedStep(p)) =>
                  /\ ~HasIsError(inv[p].response)
                  /\ inv[p].stderr # Undefined
                  /\ inv[p].warned = (inv[p].stderr[1] # "")
            /\ HasIsError(inv[p].response) =>
                  \/ HasFailedStep(p)
                  \/ IsValidationRejected(p)

\* adb logcat has resolved with text on stderr; the text was logged and the
\* response is the log, not an error
C26_Witness ==
    \E p \in DOMAIN inv :
        /\ inv[p].tool = "adb_logcat"
        /\ inv[p].pc = "done"
        /\ inv[p].events = <<"ok">>
        /\ inv[p].stderr = Some("warning")
        /\ inv[p].warned
        /\ ~HasIsError(inv[p].response)
        /\ ResponseText(inv[p].response) = "a\nb\nc\n"



\* C27: adb_shell with a non-blank command calls adb once, with the device
\* prefix, then "shell", then the trimmed command as one element whatever
\* blanks or quotes it holds: two elements without a device, four with one.
C27_ShellArgv ==
    \A p \in DOMAIN inv :
        (inv[p].tool = "adb_shell" /\ HasStarted(p)) =>
            LET command == Trimmed(inv[p].raw.command)
                prefix == DevicePrefix(inv[p].raw.device)
            IN  command # "" =>
                    /\ inv[p].calls = <<prefix \o <<"shell", command>>>>
                    /\ Len(inv[p].calls[1]) = (IF prefix = <<>> THEN 2 ELSE 4)
                    /\ inv[p].calls[1][Len(inv[p].calls[1])] = command

\* a command with blanks around it and a quoted blank inside, sent to a
\* named device
C27_Witness ==
    \E p \in DOMAIN inv :
        /\ inv[p].tool = "adb_shell"
        /\ inv[p].pc = "done"
        /\ inv[p].raw.command = " echo 'a b' "
        /\ inv[p].calls = <<<<"-s", "emulator-5554", "shell", "echo 'a b'">>>>


====
